---- MODULE Spec2Model ----
(***************************************************************************)
(* A model of the repository probe of src/git.rs: the porcelain status     *)
(* parser, directory discovery, and the lazily initialised branch, status  *)
(* and hash cells of a Repository handle.                                  *)
(*                                                                         *)
(* Text is modelled as a sequence of one-character strings, so that the    *)
(* code's character-level operations (lines, chars().next(), rfind,        *)
(* trim_end) are computed rather than assumed.                             *)
(***************************************************************************)
EXTENDS Integers, Sequences, FiniteSets, TLC

VARIABLES
    porcelain,        \* parse_porcelain_output: the text handed to the parser
    porcelain_lines,  \* the lines the iterator has not yielded yet
    line,             \* the line the closure ran on last (meaningful when nparsed > 0)
    nparsed,          \* how many lines the closure has run on
    vcs_status,       \* the GitStatus accumulated so far
    parse_pc,         \* "for_each" while iterating, "returned" once vcs_status is returned
    existing,         \* the file system: the paths for which Path::exists() is true
    start_path,       \* the path discover was first called with
    path,             \* the argument of the discover call now running
    discover_pc,      \* "discover" while walking up, "returned" once discover has returned
    repository,       \* Option<Repository>: <<>> for None, <<r>> for Some(r)
    head_file,        \* the file git_dir/HEAD as fs::read_to_string finds it
    status_cmd,       \* what exec_cmd("git", [.., "status", "--porcelain"]) returns now
    rev_parse_cmd,    \* what exec_cmd("git", [.., "rev-parse", "HEAD"]) returns now
    pc,               \* per thread: "idle", "init" (running a cell's closure) or "wait"
    call,             \* per thread: the accessor it is inside, "none" when idle
    owner,            \* per cell: the thread running its initialising closure, 0 for none
    io_log,           \* per accessor: what each run of its closure read from outside
    returned,         \* per accessor: the set of values it has returned so far
    phase,            \* per accessor: how far returns and outside changes have alternated
    format_str,       \* format_count: the category's format string
    count,            \* format_count: the category's count
    count_result,     \* format_count's Option<Vec<Segment>>: <<>> for None, <<segments>> for Some
    count_pc,         \* "called" inside format_count, "returned" after it
    config,           \* module: the GitStatusConfig loaded
    parsed,           \* module: the Result of evaluating config.format
    module_out,       \* module's Option<Module>: <<>> for None, <<segments>> for Some
    module_pc         \* "start", "parsed" (the format evaluated) or "returned"

parseVars == <<porcelain, porcelain_lines, line, nparsed, vcs_status, parse_pc>>

discoverVars == <<existing, start_path, path, discover_pc, repository>>

envVars == <<head_file, status_cmd, rev_parse_cmd>>

handleVars == <<envVars, pc, call, owner, io_log, returned, phase>>

countVars == <<format_str, count, count_result, count_pc>>

moduleVars == <<config, parsed, module_out, module_pc>>

renderVars == <<countVars, moduleVars>>

vars == <<parseVars, discoverVars, handleVars, renderVars>>

----------------------------------------------------------------------------
(* Bounds of the model *)

\* Longest porcelain text drawn as parser input (besides the repository's test texts).
MaxLen == 4

\* Deepest directory discover is started from (the root has depth 0).
MaxDepth == 3

\* Most directories of the file system that hold a .git entry.
MaxRepos == 2

\* Number of threads sharing one Repository handle.
NumThreads == 2

\* Longest format string (in lexemes) drawn as format_count's input.
MaxFmtLen == 4

\* Largest count format_count is called with.
MaxCount == 12

\* Most categories with a nonzero count in a summary module renders.
MaxNonZero == 2

\* Largest count of one category in a summary module renders.
MaxModCount == 2

\* Most runs of one cell's closure the model follows.
MaxRuns == 2

\* Longest head-reference file drawn as input (besides the sample files).
MaxHeadLen == 3

----------------------------------------------------------------------------
(* GitStatus, src/git.rs:7-21 *)

StatusFields ==
    {"untracked", "added", "modified", "renamed", "deleted", "stashed",
     "unmerged", "ahead", "behind", "diverged", "conflicted", "staged"}

\* #[derive(Default)]: every count is zero.
DefaultStatus == [f \in StatusFields |-> 0]

----------------------------------------------------------------------------
(* Text *)

NL == "\n"

\* The characters porcelain texts are drawn from: the seven letters of
\* increment_git_status's table, the space, a letter outside the table, and
\* the line terminator.
StatusChars == {"A", "M", "D", "R", "C", "U", "?", " ", "x", NL}

\* All texts of length at most n over the alphabet S.
TextsUpTo(S, n) == UNION {[1..k -> S] : k \in 0..n}

\* The position of the first line terminator of s, 0 when there is none.
FirstNL(s) ==
    IF \E i \in 1..Len(s) : s[i] = NL
    THEN CHOOSE i \in 1..Len(s) : s[i] = NL /\ \A j \in 1..(i - 1) : s[j] # NL
    ELSE 0

\* str::lines(): the text split at each "\n", terminators removed; a final
\* terminator does not start another (empty) line.  ("\r\n" endings are not
\* modelled: the alphabet holds no "\r".)
RECURSIVE Lines(_)
Lines(s) ==
    IF Len(s) = 0 THEN <<>>
    ELSE LET i == FirstNL(s) IN
         IF i = 0 THEN <<s>>
         ELSE <<SubSeq(s, 1, i - 1)>> \o Lines(SubSeq(s, i + 1, Len(s)))

----------------------------------------------------------------------------
(* The threads, the accessors and the world outside a handle *)

Threads == 1..NumThreads

\* The three lazily computed fields of Repository, by accessor name.
Accessors == {"branch", "status", "hash"}

\* fs::read_to_string(head_file): Err, or Ok(contents).
Unreadable == [readable |-> FALSE, contents |-> <<>>]
Readable(text) == [readable |-> TRUE, contents |-> text]

\* utils::exec_cmd: None, or Some(output) with output.stdout.
ExecNone == [spawned |-> FALSE, stdout |-> <<>>]
ExecSome(text) == [spawned |-> TRUE, stdout |-> text]

\* The state of the handle variables while no handle is modelled.
HandleIdle ==
    /\ head_file = Unreadable
    /\ status_cmd = ExecNone
    /\ rev_parse_cmd = ExecNone
    /\ pc = [t \in Threads |-> "idle"]
    /\ call = [t \in Threads |-> "none"]
    /\ owner = [a \in Accessors |-> 0]
    /\ io_log = [a \in Accessors |-> <<>>]
    /\ returned = [a \in Accessors |-> {}]
    /\ phase = [a \in Accessors |-> "fresh"]

----------------------------------------------------------------------------
(* Format strings, segments and GitStatusConfig *)

\* A format string is the sequence of its lexemes: a character of literal
\* text (an escaped \$ \[ \] \( \) is the literal character), a variable
\* $name, the brackets of a group [body](style), and the (style) that closes
\* a group.  Style(key) with key a variable name is ($key), resolved by the
\* style mapper; with any other key it is the literal style (key).
Lit(c) == [k |-> "text", v |-> c]
Var(n) == [k |-> "var", v |-> n]
Open == [k |-> "[", v |-> ""]
Close == [k |-> "]", v |-> ""]
Style(key) == [k |-> "style", v |-> key]

\* The style of a segment nothing has styled.
NoStyle == "none"

\* Segment: a text and a style token.
Segment(text, style) == [text |-> text, style |-> style]

\* The status categories the module resolves as variables.
Categories ==
    {"stashed", "ahead", "behind", "conflicted", "deleted", "renamed",
     "modified", "staged", "untracked"}

\* ALL_STATUS_FORMAT:
\* "$conflicted$stashed$deleted$renamed$modified$staged$untracked".
ALL_STATUS_FORMAT ==
    <<Var("conflicted"), Var("stashed"), Var("deleted"), Var("renamed"),
      Var("modified"), Var("staged"), Var("untracked")>>

\* Every variable name the model's format strings use.
Names == Categories \cup {"all_status", "count", "symbol", "style"}

\* The symbols of the module's documentation, one per category.
DefaultSymbol ==
    [c \in Categories |->
        CASE c = "conflicted" -> "="
          [] c = "ahead" -> "^"
          [] c = "behind" -> "v"
          [] c = "untracked" -> "?"
          [] c = "stashed" -> "$"
          [] c = "modified" -> "!"
          [] c = "staged" -> "+"
          [] c = "renamed" -> ">"
          [] c = "deleted" -> "x"]

\* A GitStatusConfig: the master format, the style, and one format string per
\* category; by default each category's format is its symbol.
GitStatusConfig(format, overrides) ==
    [c \in Categories |->
        IF c \in DOMAIN overrides THEN overrides[c] ELSE <<Lit(DefaultSymbol[c])>>]
    @@ [format |-> format, style |-> "red bold"]

\* The state of the rendering variables while no rendering is modelled.
RenderIdle ==
    /\ format_str = <<>>
    /\ count = 0
    /\ count_result = <<>>
    /\ count_pc = "returned"
    /\ config = GitStatusConfig(<<>>, <<>>)
    /\ parsed = [ok |-> FALSE, segments |-> <<>>]
    /\ module_out = <<>>
    /\ module_pc = "returned"

----------------------------------------------------------------------------
(* Paths and Repository::discover, src/git.rs:33-59 *)

\* A path is the sequence of its components below the file-system root;
\* the root itself is <<>>.
DirNames == {"a", "b"}

Dirs == TextsUpTo(DirNames, MaxDepth)

\* Path::join with a single component.
join(p, name) == Append(p, name)

\* Path::parent: <<>> for None (the root has no parent), <<q>> for Some(q).
parent(p) == IF p = <<>> THEN <<>> ELSE <<SubSeq(p, 1, Len(p) - 1)>>

\* Path::exists.
exists(p) == p \in existing

\* A freshly constructed OnceCell holds nothing: <<>>; <<v>> once set.
OnceCell_new == <<>>

\* scan without the test of git_dir.exists().
scan_unchecked(p) ==
    <<[git_dir |-> join(p, ".git"), root_dir |-> p,
       branch |-> OnceCell_new, status |-> OnceCell_new, hash |-> OnceCell_new]>>

\* Repository::scan: Some(Repository) when path/.git exists, else None.
scan(p) ==
    IF ~exists(join(p, ".git")) THEN <<>>
    ELSE <<[git_dir |-> join(p, ".git"), root_dir |-> p,
            branch |-> OnceCell_new, status |-> OnceCell_new, hash |-> OnceCell_new]>>

\* All subsets of S with at most n elements.
RECURSIVE SubsetsUpTo(_, _)
SubsetsUpTo(S, n) ==
    IF n = 0 THEN {{}}
    ELSE LET smaller == SubsetsUpTo(S, n - 1) IN
         smaller \cup {x \cup {e} : x \in smaller, e \in S}

\* The state of the discovery variables while no discovery is modelled.
DiscoverIdle ==
    /\ existing = {}
    /\ start_path = <<>>
    /\ path = <<>>
    /\ discover_pc = "returned"
    /\ repository = <<>>

\* The state of the parser variables while no parse is modelled.
ParseIdle ==
    /\ porcelain = <<>>
    /\ porcelain_lines = <<>>
    /\ line = <<>>
    /\ nparsed = 0
    /\ vcs_status = DefaultStatus
    /\ parse_pc = "returned"

\* discover(start_path) is called on some file system.
InitDiscover ==
    /\ existing \in SubsetsUpTo({join(d, ".git") : d \in Dirs}, MaxRepos)
    /\ start_path \in Dirs
    /\ path = start_path
    /\ discover_pc = "discover"
    /\ repository = <<>>
    /\ ParseIdle
    /\ HandleIdle
    /\ RenderIdle

\* scan(path) found a repository: discover returns it.
DiscoverFound ==
    /\ discover_pc = "discover"
    /\ scan(path) # <<>>
    /\ repository' = scan(path)
    /\ discover_pc' = "returned"
    /\ UNCHANGED <<existing, start_path, path>>
    /\ UNCHANGED <<parseVars, handleVars, renderVars>>

\* scan(path) found nothing and path has a parent: discover(parent).
DiscoverParent ==
    /\ discover_pc = "discover"
    /\ scan(path) = <<>>
    /\ parent(path) # <<>>
    /\ path' = parent(path)[1]
    /\ UNCHANGED <<existing, start_path, discover_pc, repository>>
    /\ UNCHANGED <<parseVars, handleVars, renderVars>>

\* scan(path) found nothing and path has no parent: discover returns None.
DiscoverNone ==
    /\ discover_pc = "discover"
    /\ scan(path) = <<>>
    /\ parent(path) = <<>>
    /\ repository' = <<>>
    /\ discover_pc' = "returned"
    /\ UNCHANGED <<existing, start_path, path>>
    /\ UNCHANGED <<parseVars, handleVars, renderVars>>

NextDiscover == DiscoverFound \/ DiscoverParent \/ DiscoverNone

SpecDiscover == InitDiscover /\ [][NextDiscover]_vars

----------------------------------------------------------------------------
(* Claims about discover, checked under SpecDiscover *)

\* p is q or an ancestor of q.
IsAncestorOrSelf(p, q) == Len(p) <= Len(q) /\ SubSeq(q, 1, Len(p)) = p

\* The directories of the chain start_path, parent, grandparent, ... that
\* have a .git child.
ChainHits ==
    {d \in Dirs \cup {start_path} :
        IsAncestorOrSelf(d, start_path) /\ (d \o <<".git">>) \in existing}

\* C8: discover returns nothing exactly when no directory of the chain has a
\* .git child; otherwise its root_dir is the nearest such directory (the
\* longest one), an ancestor-or-self of start_path, and git_dir is
\* root_dir/.git.
C8_DiscoverNearest ==
    discover_pc = "returned" =>
        /\ (repository = <<>>) <=> (ChainHits = {})
        /\ repository # <<>> =>
              /\ repository[1].root_dir \in ChainHits
              /\ \A d \in ChainHits : Len(d) <= Len(repository[1].root_dir)
              /\ IsAncestorOrSelf(repository[1].root_dir, start_path)
              /\ repository[1].git_dir = repository[1].root_dir \o <<".git">>

\* C8's case: the match is two levels above start_path, and a directory
\* further up the chain has a .git child as well.
C8_Witness ==
    /\ discover_pc = "returned"
    /\ repository # <<>>
    /\ Len(start_path) = Len(repository[1].root_dir) + 2
    /\ Cardinality(ChainHits) = 2

----------------------------------------------------------------------------
(* The porcelain status parser, src/git.rs:122-161 *)

\* increment_git_status with the 'S' arm a staged count would need.
increment_git_status_staged(status, letter) ==
    CASE letter = "A" -> [status EXCEPT !.added = @ + 1]
      [] letter = "M" -> [status EXCEPT !.modified = @ + 1]
      [] letter = "D" -> [status EXCEPT !.deleted = @ + 1]
      [] letter = "R" -> [status EXCEPT !.renamed = @ + 1]
      [] letter = "C" -> [status EXCEPT !.added = @ + 1]
      [] letter = "U" -> [status EXCEPT !.modified = @ + 1]
      [] letter = "?" -> [status EXCEPT !.untracked = @ + 1]
      [] letter = "S" -> [status EXCEPT !.staged = @ + 1]
      [] OTHER -> status

\* increment_git_status: the match on the letter; any other letter, 'S'
\* included, falls to the `_ => ()` arm.
increment_git_status(status, letter) ==
    CASE letter = "A" -> [status EXCEPT !.added = @ + 1]
      [] letter = "M" -> [status EXCEPT !.modified = @ + 1]
      [] letter = "D" -> [status EXCEPT !.deleted = @ + 1]
      [] letter = "R" -> [status EXCEPT !.renamed = @ + 1]
      [] letter = "C" -> [status EXCEPT !.added = @ + 1]
      [] letter = "U" -> [status EXCEPT !.modified = @ + 1]
      [] letter = "?" -> [status EXCEPT !.untracked = @ + 1]
      [] OTHER -> status

\* The first two characters of a line, a missing one read as a space.
letter_codes(l) ==
    <<IF Len(l) >= 1 THEN l[1] ELSE " ", IF Len(l) >= 2 THEN l[2] ELSE " ">>

\* The for_each closure run on one line.
for_each_line(status, l) ==
    LET codes == letter_codes(l) IN
    IF codes[1] = codes[2]
    THEN [status EXCEPT !.conflicted = @ + 1]
    ELSE increment_git_status(increment_git_status(status, "S"), codes[2])

\* The closure folded over a sequence of lines.
RECURSIVE fold_lines(_, _)
fold_lines(status, ls) ==
    IF ls = <<>> THEN status
    ELSE fold_lines(for_each_line(status, Head(ls)), Tail(ls))

\* parse_porcelain_output as a function of its input.
parse_porcelain_output(text) == fold_lines(DefaultStatus, Lines(text))

\* tests::test_parse_porcelain_output's input, src/git.rs:180-183.
TestPorcelain ==
    <<"M", " ", "s", "r", "c", "/", "p", "r", "o", "m", "p", "t", ".", "r", "s", NL,
      "M", "M", " ", "s", "r", "c", "/", "m", "a", "i", "n", ".", "r", "s", NL,
      "A", " ", "s", "r", "c", "/", "f", "o", "r", "m", "a", "t", "t", "e", "r", ".", "r", "s", NL,
      "?", " ", "R", "E", "A", "D", "M", "E", ".", "m", "d">>

\* The listing "M a", "MM b", "A c", "?? d", each line terminated.
ListedPorcelain ==
    <<"M", " ", "a", NL, "M", "M", " ", "b", NL, "A", " ", "c", NL,
      "?", "?", " ", "d", NL>>

\* The inputs the parser is run on.
PorcelainTexts == TextsUpTo(StatusChars, MaxLen) \cup {TestPorcelain, ListedPorcelain}

\* parse_porcelain_output is entered with some text: the lines iterator is
\* made and vcs_status starts at the default.
InitParse ==
    /\ porcelain \in PorcelainTexts
    /\ porcelain_lines = Lines(porcelain)
    /\ line = <<>>
    /\ nparsed = 0
    /\ vcs_status = DefaultStatus
    /\ parse_pc = "for_each"
    /\ DiscoverIdle
    /\ HandleIdle
    /\ RenderIdle

\* One turn of porcelain_lines.for_each: the closure runs on the next line.
ParseLine ==
    /\ parse_pc = "for_each"
    /\ porcelain_lines # <<>>
    /\ line' = Head(porcelain_lines)
    /\ porcelain_lines' = Tail(porcelain_lines)
    /\ nparsed' = nparsed + 1
    /\ vcs_status' = for_each_line(vcs_status, Head(porcelain_lines))
    /\ UNCHANGED <<porcelain, parse_pc>>
    /\ UNCHANGED <<discoverVars, handleVars, renderVars>>

\* The iterator is exhausted: vcs_status is returned.
ParseReturn ==
    /\ parse_pc = "for_each"
    /\ porcelain_lines = <<>>
    /\ parse_pc' = "returned"
    /\ UNCHANGED <<porcelain, porcelain_lines, line, nparsed, vcs_status>>
    /\ UNCHANGED <<discoverVars, handleVars, renderVars>>

NextParse == ParseLine \/ ParseReturn

SpecParse == InitParse /\ [][NextParse]_vars

----------------------------------------------------------------------------
(* Claims about the parser, checked under SpecParse *)

\* The i-th character of a line as the parser reads it: a space when the
\* line is shorter.
CodeAt(l, i) == IF Len(l) >= i THEN l[i] ELSE " "

\* The table from worktree-status character to counter.
WorktreeTable ==
    {<<"A", "added">>, <<"C", "added">>, <<"M", "modified">>, <<"U", "modified">>,
     <<"D", "deleted">>, <<"R", "renamed">>, <<"?", "untracked">>}

\* What tests::test_parse_porcelain_output expects.
ExpectedTestStatus ==
    [DefaultStatus EXCEPT !.modified = 2, !.added = 1, !.untracked = 1]

\* C3: parsing the four-line listing (as the spec writes it, or as the test
\* writes it with "? README.md" last) returns modified = 2, added = 1,
\* untracked = 1 and every other count zero.
C3_TestListingCounts ==
    (parse_pc = "returned" /\ porcelain \in {TestPorcelain, ListedPorcelain})
        => vcs_status = ExpectedTestStatus

\* C4: every line whose first two characters are both '?' adds one to
\* untracked and nothing to conflicted.
C4_UntrackedPair ==
    [][(ParseLine /\ Len(line') >= 2 /\ line'[1] = "?" /\ line'[2] = "?")
          => /\ vcs_status'.untracked = vcs_status.untracked + 1
             /\ vcs_status'.conflicted = vcs_status.conflicted]_vars

\* C5: a line is counted as conflicted only when its first two characters
\* are identical and not spaces, and a line whose two (space-padded)
\* characters are both spaces, the empty line included, changes no count.
C5_ConflictNeedsNonSpacePair ==
    [][ParseLine =>
          /\ (vcs_status'.conflicted > vcs_status.conflicted
                => (CodeAt(line', 1) = CodeAt(line', 2) /\ CodeAt(line', 1) # " "))
          /\ ((CodeAt(line', 1) = " " /\ CodeAt(line', 2) = " ")
                => vcs_status' = vcs_status)]_vars

C7_StagedAfterIndexAdd ==
    (nparsed > 0 /\ Len(line) >= 2 /\ line[1] = "A" /\ line[2] = " ")
        => vcs_status.staged > 0

----------------------------------------------------------------------------
(* The lazily computed fields of a Repository handle, src/git.rs:61-112 *)

\* char::is_whitespace, on the characters the model's texts hold.
Whitespace == {" ", NL}

\* str::find(c): the position of the first c in s, 0 for None.
find(s, c) ==
    IF \E i \in 1..Len(s) : s[i] = c
    THEN CHOOSE i \in 1..Len(s) : s[i] = c /\ \A j \in 1..(i - 1) : s[j] # c
    ELSE 0

\* str::rfind(c): the position of the last c in s, 0 for None.
rfind(s, c) ==
    IF \E i \in 1..Len(s) : s[i] = c
    THEN CHOOSE i \in 1..Len(s) : s[i] = c /\ \A j \in (i + 1)..Len(s) : s[j] # c
    ELSE 0

\* str::trim_end: s without its trailing whitespace.
RECURSIVE trim_end(_)
trim_end(s) ==
    IF s # <<>> /\ s[Len(s)] \in Whitespace
    THEN trim_end(SubSeq(s, 1, Len(s) - 1))
    ELSE s

\* String::from("HEAD").
HEAD == <<"H", "E", "A", "D">>

\* Repository::get_branch on what reading git_dir/HEAD gives: <<>> for None
\* (the read failed, or rfind found no '/'), <<name>> for Some(name).
get_branch(head) ==
    IF ~head.readable THEN <<>>
    ELSE LET head_contents == head.contents
             branch_start == rfind(head_contents, "/")
         IN  IF branch_start = 0 THEN <<>>
             ELSE <<trim_end(SubSeq(head_contents, branch_start + 1, Len(head_contents)))>>

\* The closure of branch(): get_branch's name, "HEAD" for None.
branch_closure(head) ==
    IF get_branch(head) = <<>> THEN HEAD ELSE get_branch(head)[1]

\* Repository::get_status on what exec_cmd returns.
get_status(output) ==
    IF ~output.spawned THEN DefaultStatus
    ELSE parse_porcelain_output(output.stdout)

\* get_hash that answers a failed command with an empty hash.
get_hash_empty(output) == <<output.stdout>>

\* Repository::get_hash on what exec_cmd returns: <<>> for None, <<stdout>>
\* for Some(stdout).
get_hash(output) ==
    IF ~output.spawned THEN <<>>
    ELSE <<output.stdout>>

\* What accessor a's closure reads from outside the handle when it runs.
outside(a) ==
    CASE a = "branch" -> head_file
      [] a = "status" -> status_cmd
      [] a = "hash" -> rev_parse_cmd

\* The value accessor a's closure computes from what it read.
closure(a, input) ==
    CASE a = "branch" -> branch_closure(input)
      [] a = "status" -> get_status(input)
      [] a = "hash" -> get_hash(input)

\* The OnceCell behind accessor a: <<>> while empty, <<v>> once set.
cell(a) == repository[1][a]

\* An accessor that never finds its cell set (no caching).
is_initialized_never(a) == FALSE

\* OnceCell::get(): the cell has been set.
is_initialized(a) == cell(a) # <<>>

\* A cell that lets every caller that finds it empty run the closure.
may_initialize_racy(a) == TRUE

\* OnceCell::get_or_init lets one caller at a time run the closure: no other
\* thread is running it.
may_initialize(a) == owner[a] = 0

\* The phase of an accessor after it has returned once more.
AfterReturn(p) ==
    CASE p = "fresh" -> "returned"
      [] p = "changed" -> "returned_again"
      [] OTHER -> p

\* The phase of accessor a after the outside changed to `input`: "changed"
\* while a has returned and a new run of its closure would give another value.
AfterChange(a, input) ==
    IF phase[a] \in {"returned", "changed"}
    THEN IF closure(a, input) # cell(a)[1] THEN "changed" ELSE "returned"
    ELSE phase[a]

\* The sample head-reference file "ref: refs/heads/main\n".
RefMain ==
    <<"r", "e", "f", ":", " ", "r", "e", "f", "s", "/", "h", "e", "a", "d", "s", "/",
      "m", "a", "i", "n", NL>>

\* The characters head-reference files are drawn from.
HeadChars == {"/", "m", " "}

\* The head-reference files of the branch model.
HeadFiles ==
    {Unreadable, Readable(RefMain)}
        \cup {Readable(text) : text \in TextsUpTo(HeadChars, MaxHeadLen)}

\* The outside states of the concurrent model.
HeadSamples == {Unreadable, Readable(RefMain), Readable(<<"m", "/", "x", NL>>)}

StatusSamples == {ExecNone, ExecSome(<<" ", "M", " ", "f", NL>>), ExecSome(<<"A", "D", " ", "g", NL>>)}

RevParseSamples == {ExecNone, ExecSome(<<"c", "0", "f", "f", "e", "e", NL>>), ExecSome(<<"b", "a", "d", "d", NL>>)}

\* A handle as discover returns it, no field computed yet, no thread inside.
InitHandle ==
    /\ ParseIdle
    /\ RenderIdle
    /\ existing = {<<"a", ".git">>}
    /\ start_path = <<"a", "b">>
    /\ path = <<"a">>
    /\ discover_pc = "returned"
    /\ repository = scan(<<"a">>)
    /\ pc = [t \in Threads |-> "idle"]
    /\ call = [t \in Threads |-> "none"]
    /\ owner = [a \in Accessors |-> 0]
    /\ io_log = [a \in Accessors |-> <<>>]
    /\ returned = [a \in Accessors |-> {}]
    /\ phase = [a \in Accessors |-> "fresh"]

Init ==
    /\ InitHandle
    /\ head_file \in HeadSamples
    /\ status_cmd \in StatusSamples
    /\ rev_parse_cmd \in RevParseSamples

\* Thread t calls accessor a and get() finds the cell set: the cached value
\* is returned.
CallCached(t, a) ==
    /\ pc[t] = "idle"
    /\ is_initialized(a)
    /\ returned' = [returned EXCEPT ![a] = @ \cup {cell(a)[1]}]
    /\ phase' = [phase EXCEPT ![a] = AfterReturn(@)]
    /\ UNCHANGED <<parseVars, renderVars, discoverVars, envVars, pc, call, owner, io_log>>

\* Thread t calls accessor a, the cell is empty and no thread is
\* initialising it: t starts to run the closure.
CallInit(t, a) ==
    /\ pc[t] = "idle"
    /\ ~is_initialized(a)
    /\ may_initialize(a)
    /\ Len(io_log[a]) < MaxRuns
    /\ pc' = [pc EXCEPT ![t] = "init"]
    /\ call' = [call EXCEPT ![t] = a]
    /\ owner' = [owner EXCEPT ![a] = t]
    /\ UNCHANGED <<parseVars, renderVars, discoverVars, envVars, io_log, returned, phase>>

\* Thread t calls accessor a while another thread is initialising the cell:
\* t blocks until the value is published.
CallWait(t, a) ==
    /\ pc[t] = "idle"
    /\ ~is_initialized(a)
    /\ ~may_initialize(a)
    /\ pc' = [pc EXCEPT ![t] = "wait"]
    /\ call' = [call EXCEPT ![t] = a]
    /\ UNCHANGED <<parseVars, renderVars, discoverVars, envVars, owner, io_log, returned, phase>>

\* Thread t runs the closure of the accessor it is in: it reads the outside
\* (the head file, or one external command), sets the cell to the value
\* computed and returns it.
RunInit(t) ==
    /\ pc[t] = "init"
    /\ LET a == call[t]
           input == outside(a)
           value == closure(a, input)
       IN  /\ io_log' = [io_log EXCEPT ![a] = Append(@, input)]
           /\ repository' = [repository EXCEPT ![1][a] = <<value>>]
           /\ owner' = [owner EXCEPT ![a] = 0]
           /\ returned' = [returned EXCEPT ![a] = @ \cup {value}]
           /\ phase' = [phase EXCEPT ![a] = AfterReturn(@)]
    /\ pc' = [pc EXCEPT ![t] = "idle"]
    /\ call' = [call EXCEPT ![t] = "none"]
    /\ UNCHANGED <<parseVars, renderVars, existing, start_path, path, discover_pc, envVars>>

\* A blocked thread finds the cell set and returns its value.
Wake(t) ==
    /\ pc[t] = "wait"
    /\ is_initialized(call[t])
    /\ returned' = [returned EXCEPT ![call[t]] = @ \cup {cell(call[t])[1]}]
    /\ phase' = [phase EXCEPT ![call[t]] = AfterReturn(@)]
    /\ pc' = [pc EXCEPT ![t] = "idle"]
    /\ call' = [call EXCEPT ![t] = "none"]
    /\ UNCHANGED <<parseVars, renderVars, discoverVars, envVars, owner, io_log>>

\* Outside the handle, the head-reference file changes.
SetHead(h) ==
    /\ h # head_file
    /\ head_file' = h
    /\ phase' = [phase EXCEPT !["branch"] = AfterChange("branch", h)]
    /\ UNCHANGED <<parseVars, renderVars, discoverVars, status_cmd, rev_parse_cmd,
                   pc, call, owner, io_log, returned>>

\* Outside the handle, the working tree changes: the status command would
\* now give another result.
SetStatusCmd(o) ==
    /\ o # status_cmd
    /\ status_cmd' = o
    /\ phase' = [phase EXCEPT !["status"] = AfterChange("status", o)]
    /\ UNCHANGED <<parseVars, renderVars, discoverVars, head_file, rev_parse_cmd,
                   pc, call, owner, io_log, returned>>

\* Outside the handle, HEAD moves: rev-parse would now give another result.
SetRevParseCmd(o) ==
    /\ o # rev_parse_cmd
    /\ rev_parse_cmd' = o
    /\ phase' = [phase EXCEPT !["hash"] = AfterChange("hash", o)]
    /\ UNCHANGED <<parseVars, renderVars, discoverVars, head_file, status_cmd,
                   pc, call, owner, io_log, returned>>

Next ==
    \/ \E t \in Threads, a \in Accessors : CallCached(t, a)
    \/ \E t \in Threads, a \in Accessors : CallInit(t, a)
    \/ \E t \in Threads, a \in Accessors : CallWait(t, a)
    \/ \E t \in Threads : RunInit(t)
    \/ \E t \in Threads : Wake(t)
    \/ \E h \in HeadSamples : SetHead(h)
    \/ \E o \in StatusSamples : SetStatusCmd(o)
    \/ \E o \in RevParseSamples : SetRevParseCmd(o)

Spec == Init /\ [][Next]_vars

----------------------------------------------------------------------------
(* The branch accessor on every small head-reference file *)

\* The handle's first thread.
MainThread == {t \in Threads : \A u \in Threads : t <= u}

InitBranch ==
    /\ InitHandle
    /\ head_file \in HeadFiles
    /\ status_cmd = ExecNone
    /\ rev_parse_cmd = ExecNone

NextBranch ==
    \/ \E t \in MainThread : CallCached(t, "branch")
    \/ \E t \in MainThread : CallInit(t, "branch")
    \/ \E t \in MainThread : RunInit(t)
    \/ \E h \in HeadFiles : SetHead(h)

SpecBranch == InitBranch /\ [][NextBranch]_vars

----------------------------------------------------------------------------
(* Claims about the handle, checked under Spec and SpecBranch *)

\* C1: however many threads call status(), and in whatever order, the
\* porcelain-status command is invoked at most once, and every value status()
\* has returned is the one summary computed from that invocation's result.
C1_StatusComputedOnce ==
    /\ Len(io_log["status"]) <= 1
    /\ \A v \in returned["status"] :
          /\ Len(io_log["status"]) = 1
          /\ v = get_status(io_log["status"][1])
          /\ cell("status") = <<v>>

\* C1's case: one thread has run the command and returned while another
\* thread, which called status() before the value was cached, is still
\* blocked on the cell.
C1_Witness ==
    /\ Len(io_log["status"]) = 1
    /\ returned["status"] # {}
    /\ \E t \in Threads : pc[t] = "wait" /\ call[t] = "status"

\* C2: each of branch(), hash() and status() has returned at most one value
\* on the handle: a later call returns what the first one did, whatever has
\* changed outside since.
C2_ReturnsNeverChange ==
    \A a \in Accessors : Cardinality(returned[a]) <= 1

\* C2's case: every accessor has returned, the head file and both commands'
\* results have then changed so that a new computation would give another
\* value, and every accessor has returned again.
C2_Witness ==
    \A a \in Accessors : phase[a] = "returned_again"

\* No '/' in the text s.
NoSlash(s) == \A i \in 1..Len(s) : s[i] # "/"

\* v is s with its trailing whitespace removed.
IsTrimmedEnd(v, s) ==
    /\ Len(v) <= Len(s)
    /\ SubSeq(s, 1, Len(v)) = v
    /\ \A i \in (Len(v) + 1)..Len(s) : s[i] \in Whitespace
    /\ (v # <<>> => v[Len(v)] \notin Whitespace)

\* v is the branch name the head-reference file h stands for: "HEAD" when h
\* is unreadable or holds no '/', else the text after its last '/' without
\* trailing whitespace.
IsBranchOf(v, h) ==
    IF ~h.readable \/ NoSlash(h.contents)
    THEN v = <<"H", "E", "A", "D">>
    ELSE \E i \in 1..Len(h.contents) :
            /\ h.contents[i] = "/"
            /\ NoSlash(SubSeq(h.contents, i + 1, Len(h.contents)))
            /\ IsTrimmedEnd(v, SubSeq(h.contents, i + 1, Len(h.contents)))

\* C9: the head-reference file is read at most once, and every value branch()
\* has returned is the branch name of the file as it was at that read ("HEAD"
\* for an unreadable, empty or '/'-less file).
C9_BranchFromHeadFile ==
    /\ Len(io_log["branch"]) <= 1
    /\ \A v \in returned["branch"] :
          /\ Len(io_log["branch"]) = 1
          /\ IsBranchOf(v, io_log["branch"][1])

\* C9's case: the file held no '/' when it was read, "HEAD" was returned, the
\* file has since come to name a branch, and branch() has returned again.
C9_Witness ==
    /\ Len(io_log["branch"]) = 1
    /\ io_log["branch"][1].readable
    /\ io_log["branch"][1].contents # <<>>
    /\ returned["branch"] = {HEAD}
    /\ phase["branch"] = "returned_again"
    /\ head_file = Readable(RefMain)

\* C10: when the command a closure ran failed, status() has returned nothing
\* but the all-zero summary and hash() nothing but None, and those defaults
\* are what the cells hold.
C10_DefaultsOnExecFailure ==
    /\ (io_log["status"] # <<>> /\ ~io_log["status"][1].spawned)
          => /\ returned["status"] = {[f \in StatusFields |-> 0]}
             /\ cell("status") = <<[f \in StatusFields |-> 0]>>
    /\ (io_log["hash"] # <<>> /\ ~io_log["hash"][1].spawned)
          => /\ returned["hash"] = {<<>>}
             /\ cell("hash") = <<<<>>>>

\* C10's case: both commands failed when the closures ran, both now succeed,
\* and status() and hash() have each returned again.
C10_Witness ==
    /\ io_log["status"] = <<ExecNone>>
    /\ io_log["hash"] = <<ExecNone>>
    /\ status_cmd.spawned
    /\ rev_parse_cmd.spawned
    /\ phase["status"] = "returned_again"
    /\ phase["hash"] = "returned_again"

----------------------------------------------------------------------------
(* StringFormatter: construction and evaluation of a format string *)

\* A formatter's Result: Ok(segments), or Err.
Ok(segments) == [ok |-> TRUE, segments |-> segments]
Err == [ok |-> FALSE, segments |-> <<>>]

\* How deep meta-variables may expand into format strings that hold
\* meta-variables themselves.
RecursionLimit == 2

\* Opening minus closing brackets among f[i..j].
Depth(f, i, j) ==
    Cardinality({n \in i..j : f[n] = Open}) - Cardinality({n \in i..j : f[n] = Close})

\* The position of the bracket that closes the one opened at f[1], 0 when
\* nothing closes it.
MatchClose(f) ==
    IF \E j \in 2..Len(f) : Depth(f, 1, j) = 0
    THEN CHOOSE j \in 2..Len(f) :
            Depth(f, 1, j) = 0 /\ \A n \in 2..(j - 1) : Depth(f, 1, n) # 0
    ELSE 0

\* The format string parses: text and variables anywhere, every [ closed by
\* a ] that its (style) follows, no ] or (style) elsewhere.
RECURSIVE WellFormed(_)
WellFormed(f) ==
    IF f = <<>> THEN TRUE
    ELSE IF Head(f).k \in {"text", "var"} THEN WellFormed(Tail(f))
    ELSE IF Head(f) = Open
         THEN LET j == MatchClose(f) IN
              /\ j # 0
              /\ j + 1 <= Len(f)
              /\ f[j + 1].k = "style"
              /\ WellFormed(SubSeq(f, 2, j - 1))
              /\ WellFormed(SubSeq(f, j + 2, Len(f)))
         ELSE FALSE

\* StringFormatter::new: Ok(formatter) when the string parses, else Err.
StringFormatter_new(f) == WellFormed(f)

\* The segments a variable's value gives inside a group of style `style`:
\* a segment that has no style of its own takes the group's.
Styled(segments, style) ==
    [i \in 1..Len(segments) |->
        IF segments[i].style = NoStyle
        THEN Segment(segments[i].text, style)
        ELSE segments[i]]

\* StringFormatter::parse on a well-formed format string f inside a group of
\* style `style`.  metas, styles and variables are the three mappers, each a
\* function from name to an Option (<<>> for None); depth is how many more
\* levels of meta-variables may be expanded.  A variable no mapper answers
\* contributes no segment.
RECURSIVE Evaluate(_, _, _, _, _, _)
Evaluate(f, style, metas, styles, variables, depth) ==
    IF f = <<>> THEN Ok(<<>>)
    ELSE
      LET first == Head(f)
          j == IF first = Open THEN MatchClose(f) ELSE 0
          here ==
            IF first.k = "text" THEN Ok(<<Segment(<<first.v>>, style)>>)
            ELSE IF first.k = "var"
            THEN IF metas[first.v] # <<>>
                 THEN IF depth = 0 \/ ~StringFormatter_new(metas[first.v][1]) THEN Err
                      ELSE Evaluate(metas[first.v][1], style, metas, styles,
                                    variables, depth - 1)
                 ELSE IF variables[first.v] # <<>>
                      THEN Ok(Styled(variables[first.v][1], style))
                      ELSE Ok(<<>>)
            ELSE LET key == f[j + 1].v
                     inner == IF key \notin Names THEN key
                              ELSE IF styles[key] # <<>> THEN styles[key][1]
                              ELSE NoStyle
                 IN  Evaluate(SubSeq(f, 2, j - 1), inner, metas, styles,
                              variables, depth)
          rest ==
            IF first = Open
            THEN Evaluate(SubSeq(f, j + 2, Len(f)), style, metas, styles,
                          variables, depth)
            ELSE Evaluate(Tail(f), style, metas, styles, variables, depth)
      IN  IF here.ok /\ rest.ok THEN Ok(here.segments \o rest.segments) ELSE Err

\* A mapper that answers no name.
NoMapper == [n \in Names |-> <<>>]

----------------------------------------------------------------------------
(* format_text and format_count, src/modules/git_status.rs:83-107 *)

\* usize::to_string: the decimal digits of n.
RECURSIVE to_string(_)
to_string(n) ==
    LET digit == <<"0", "1", "2", "3", "4", "5", "6", "7", "8", "9">>[(n % 10) + 1] IN
    IF n < 10 THEN <<digit>> ELSE Append(to_string(n \div 10), digit)

\* format_text that answers a format string it cannot construct with the
\* string's literal characters as one unstyled segment.
format_text_raw(fmt, mapper) ==
    IF StringFormatter_new(fmt)
    THEN LET values == [n \in Names |->
                          IF mapper[n] = <<>> THEN <<>>
                          ELSE <<<<Segment(mapper[n][1], NoStyle)>>>>]
             result == Evaluate(fmt, NoStyle, NoMapper, NoMapper, values, RecursionLimit)
         IN  IF result.ok THEN <<result.segments>> ELSE <<>>
    ELSE <<<<Segment(SelectSeq([i \in 1..Len(fmt) |-> fmt[i].v], LAMBDA c : c # ""), NoStyle)>>>>

\* format_text: the segments of format_str evaluated with `mapper` (from
\* name to Option<String>) as its only mapper; None when the formatter
\* cannot be constructed (a warning is logged) or evaluation fails.
format_text(fmt, mapper) ==
    IF StringFormatter_new(fmt)
    THEN LET values == [n \in Names |->
                          IF mapper[n] = <<>> THEN <<>>
                          ELSE <<<<Segment(mapper[n][1], NoStyle)>>>>]
             result == Evaluate(fmt, NoStyle, NoMapper, NoMapper, values, RecursionLimit)
         IN  IF result.ok THEN <<result.segments>> ELSE <<>>
    ELSE <<>>

\* The mapper format_count hands to format_text: "count" is the decimal
\* count, every other name is None.
count_mapper(n) == [name \in Names |-> IF name = "count" THEN <<to_string(n)>> ELSE <<>>]

\* format_count without the early return for a zero count.
format_count_unguarded(fmt, n) == format_text(fmt, count_mapper(n))

\* format_count: None for a zero count, else format_text with the count
\* mapper.
format_count(fmt, n) ==
    IF n = 0 THEN <<>>
    ELSE format_text(fmt, count_mapper(n))

\* The lexemes format_count's format strings are drawn from.
FormatLexemes == {Lit("+"), Var("count"), Var("symbol"), Open, Close, Style("green")}

\* The format strings format_count is called with.
CountFormats == TextsUpTo(FormatLexemes, MaxFmtLen)

\* format_count is called with some format string and some count.
InitFormatCount ==
    /\ ParseIdle
    /\ DiscoverIdle
    /\ HandleIdle
    /\ format_str \in CountFormats
    /\ count \in 0..MaxCount
    /\ count_result = <<>>
    /\ count_pc = "called"
    /\ config = GitStatusConfig(<<>>, <<>>)
    /\ parsed = Err
    /\ module_out = <<>>
    /\ module_pc = "returned"

\* format_count returns.
FormatCount ==
    /\ count_pc = "called"
    /\ count_result' = format_count(format_str, count)
    /\ count_pc' = "returned"
    /\ UNCHANGED <<parseVars, discoverVars, handleVars, moduleVars, format_str, count>>

NextFormatCount == FormatCount

SpecFormatCount == InitFormatCount /\ [][NextFormatCount]_vars

----------------------------------------------------------------------------
(* Claims about format_count, checked under SpecFormatCount *)

\* The texts of a list of segments, concatenated.
RECURSIVE ConcatText(_)
ConcatText(segments) ==
    IF segments = <<>> THEN <<>>
    ELSE Head(segments).text \o ConcatText(Tail(segments))

\* The decimal text of a count below 100.
DecimalText(n) ==
    LET d == <<"0", "1", "2", "3", "4", "5", "6", "7", "8", "9">> IN
    IF n < 10 THEN <<d[n + 1]>> ELSE <<d[(n \div 10) + 1], d[(n % 10) + 1]>>

\* The text a format string stands for when `count` is its only bound
\* variable: its literal characters in order, each $count replaced by the
\* decimal count, every other variable and every bracket by nothing.
RECURSIVE CountText(_, _)
CountText(f, n) ==
    IF f = <<>> THEN <<>>
    ELSE (IF Head(f).k = "text" THEN <<Head(f).v>>
          ELSE IF Head(f) = Var("count") THEN DecimalText(n)
          ELSE <<>>) \o CountText(Tail(f), n)

\* C11: format_count returns no segments for count 0, whatever the format
\* string; for a count above 0 and a format string that parses it returns the
\* segments whose text is the format string's with $count replaced by the
\* decimal count and every other variable by nothing.
C11_FormatCount ==
    count_pc = "returned" =>
        /\ count = 0 => count_result = <<>>
        /\ (count > 0 /\ WellFormed(format_str)) =>
              /\ count_result # <<>>
              /\ ConcatText(count_result[1]) = CountText(format_str, count)

\* C11's case: format_count("+$count", 3) has returned segments reading "+3".
C11_Witness ==
    /\ count_pc = "returned"
    /\ format_str = <<Lit("+"), Var("count")>>
    /\ count = 3
    /\ count_result # <<>>
    /\ ConcatText(count_result[1]) = <<"+", "3">>

----------------------------------------------------------------------------
(* module, src/modules/git_status.rs:23-81 *)

\* The meta mapper of module: all_status stands for ALL_STATUS_FORMAT.
meta_mapper == [n \in Names |-> IF n = "all_status" THEN <<ALL_STATUS_FORMAT>> ELSE <<>>]

\* The style mapper of module: style stands for config.style.
style_mapper(cfg) == [n \in Names |-> IF n = "style" THEN <<cfg.style>> ELSE <<>>]

\* The count module hands to format_count for a category.
count_passed(status, c) ==
    CASE c = "stashed" -> status.stashed
      [] c = "ahead" -> status.ahead
      [] c = "behind" -> status.ahead
      [] c = "conflicted" -> status.conflicted
      [] c = "deleted" -> status.deleted
      [] c = "renamed" -> status.renamed
      [] c = "modified" -> status.modified
      [] c = "staged" -> status.staged
      [] c = "untracked" -> status.untracked

\* The variable mapper of module: a category's segments are format_count of
\* its format string and the count handed over; any other name is None.
variable_mapper(cfg, status) ==
    [n \in Names |->
        IF n \in Categories THEN format_count(cfg[n], count_passed(status, n)) ELSE <<>>]

\* The value of `parsed`: StringFormatter::new(config.format) and, when that
\* succeeds, the formatter's parse with the three mappers.
module_parsed(cfg, status) ==
    IF ~StringFormatter_new(cfg.format) THEN Err
    ELSE Evaluate(cfg.format, NoStyle, meta_mapper, style_mapper(cfg),
                  variable_mapper(cfg, status), RecursionLimit)

\* module's end that hands an empty segment list to the module it returns.
module_return_unchecked(p) ==
    IF p.ok THEN <<p.segments>> ELSE <<>>

\* module's end: None for Ok of no segments and for Err (a warning is
\* logged), else the module with the segments set.
module_return(p) ==
    IF p.ok
    THEN IF p.segments = <<>> THEN <<>> ELSE <<p.segments>>
    ELSE <<>>

\* The summaries module renders: at most MaxNonZero categories counted, none
\* above MaxModCount.
ModuleStatuses ==
    UNION {{[f \in StatusFields |-> IF f \in S THEN g[f] ELSE 0] :
                g \in [S -> 1..MaxModCount]} :
           S \in SubsetsUpTo(Categories, MaxNonZero)}

\* The master formats module is configured with: each category alone, the
\* default, the default with ahead and behind, a group in config.style,
\* literal text, and a group left unclosed.
MasterFormats ==
    {<<Var(c)>> : c \in Categories} \cup
    {<<Var("all_status")>>,
     <<Var("all_status"), Var("ahead"), Var("behind")>>,
     <<Open, Var("all_status"), Close, Style("style")>>,
     <<Lit("g"), Var("all_status")>>,
     <<Open, Var("all_status")>>}

\* The category formats a configuration overrides: none, or one category's,
\* by its symbol followed by the count or by a group left unclosed.
Overrides ==
    {<<>>} \cup
    UNION {{[x \in {c} |-> f] : f \in {<<Lit(DefaultSymbol[c]), Var("count")>>,
                                        <<Open, Lit(DefaultSymbol[c])>>}} :
           c \in Categories}

ModuleConfigs == {GitStatusConfig(m, o) : m \in MasterFormats, o \in Overrides}

\* module is called: the context holds no repository, or one whose status
\* cell holds a summary (repo.status() returns the cell's value).
InitModule ==
    /\ ParseIdle
    /\ HandleIdle
    /\ existing \in {{}, {<<"a", ".git">>}}
    /\ start_path = <<"a", "b">>
    /\ path = <<"a">>
    /\ discover_pc = "returned"
    /\ \E st \in ModuleStatuses :
          repository = IF scan(<<"a">>) = <<>> THEN <<>>
                       ELSE <<[scan(<<"a">>)[1] EXCEPT !.status = <<st>>]>>
    /\ format_str = <<>>
    /\ count = 0
    /\ count_result = <<>>
    /\ count_pc = "returned"
    /\ config \in ModuleConfigs
    /\ parsed = Err
    /\ module_out = <<>>
    /\ module_pc = "start"

\* context.repo() is None: module returns None.
ModuleNoRepo ==
    /\ module_pc = "start"
    /\ repository = <<>>
    /\ module_out' = <<>>
    /\ module_pc' = "returned"
    /\ UNCHANGED <<parseVars, discoverVars, handleVars, countVars, config, parsed>>

\* The master format is evaluated against the repository's status.
ModuleParse ==
    /\ module_pc = "start"
    /\ repository # <<>>
    /\ parsed' = module_parsed(config, cell("status")[1])
    /\ module_pc' = "parsed"
    /\ UNCHANGED <<parseVars, discoverVars, handleVars, countVars, config, module_out>>

\* module returns on `parsed`.
ModuleReturn ==
    /\ module_pc = "parsed"
    /\ module_out' = module_return(parsed)
    /\ module_pc' = "returned"
    /\ UNCHANGED <<parseVars, discoverVars, handleVars, countVars, config, parsed>>

NextModule == ModuleNoRepo \/ ModuleParse \/ ModuleReturn

SpecModule == InitModule /\ [][NextModule]_vars

----------------------------------------------------------------------------
(* Claims about module, checked under SpecModule *)

\* The summary module renders: the value of the repository's status cell.
RenderedStatus == cell("status")[1]

\* C12: module returns Some only when a repository was found and the master
\* format evaluated to Ok of at least one segment, and then with exactly
\* those segments; with no repository, with Ok of no segments (as the
\* default format gives when every count is zero) and with Err (as a master
\* format that does not parse gives) it returns None, so no segment list
\* reaches a returned module in the Err case.
C12_ModuleOnlyOnSegments ==
    module_pc = "returned" =>
        /\ repository = <<>> => module_out = <<>>
        /\ repository # <<>> =>
              /\ ~WellFormed(config.format) => ~parsed.ok
              /\ ~parsed.ok => module_out = <<>>
              /\ (parsed.ok /\ parsed.segments = <<>>) => module_out = <<>>
              /\ (parsed.ok /\ parsed.segments # <<>>) => module_out = <<parsed.segments>>
              /\ (config.format = <<Var("all_status")>> /\ RenderedStatus = DefaultStatus)
                    => parsed = Ok(<<>>)

\* C12's case: a repository with every count zero under the default format:
\* the format evaluated to Ok of no segments and module returned None.
C12_Witness ==
    /\ module_pc = "returned"
    /\ repository # <<>>
    /\ RenderedStatus = DefaultStatus
    /\ config = GitStatusConfig(<<Var("all_status")>>, <<>>)
    /\ parsed = Ok(<<>>)
    /\ module_out = <<>>

Mentions(f, c) ==
    \E i \in 1..Len(f) :
        \/ f[i] = Var(c)
        \/ f[i] = Var("all_status") /\ \E n \in 1..Len(ALL_STATUS_FORMAT) : ALL_STATUS_FORMAT[n] = Var(c)

\* The count module reads for category c: the category's own, but ahead's
\* for behind (src/modules/git_status.rs:44).
CountRead(status, c) == IF c = "behind" THEN status.ahead ELSE status[c]

\* C14 as stated: when a category the master format names has a nonzero
\* count, which module reads as such, and a format string that does not
\* parse, evaluation is an error and module returns None.
C14_MalformedSuppressesModule ==
    (/\ module_pc = "returned"
     /\ repository # <<>>
     /\ \E c \in Categories :
           /\ Mentions(config.format, c)
           /\ RenderedStatus[c] > 0
           /\ CountRead(RenderedStatus, c) > 0
           /\ ~WellFormed(config[c]))
    => (~parsed.ok /\ module_out = <<>>)

\* What a category contributes to the rendered text: nothing when the count
\* read is zero or its format string does not parse, else the format's text
\* with $count replaced.
CategoryText(cfg, status, c) ==
    IF CountRead(status, c) = 0 \/ ~WellFormed(cfg[c]) THEN <<>>
    ELSE CountText(cfg[c], CountRead(status, c))

\* The text a well-formed master format stands for: its literal characters,
\* each category variable replaced by the category's contribution,
\* $all_status by that of ALL_STATUS_FORMAT, any other lexeme by nothing.
RECURSIVE ModuleText(_, _, _)
ModuleText(f, cfg, status) ==
    IF f = <<>> THEN <<>>
    ELSE (IF Head(f).k = "text" THEN <<Head(f).v>>
          ELSE IF Head(f) = Var("all_status") THEN ModuleText(ALL_STATUS_FORMAT, cfg, status)
          ELSE IF Head(f).k = "var" /\ Head(f).v \in Categories
               THEN CategoryText(cfg, status, Head(f).v)
          ELSE <<>>) \o ModuleText(Tail(f), cfg, status)

\* C14 amended: a category whose format string does not parse contributes
\* no segments, exactly as with a zero count, and raises no error: under a
\* well-formed master format evaluation is Ok, and module returns None when
\* the remaining categories and the literal text give nothing, else the
\* segments reading the master format's text without that category.
C14_MalformedCategorySkipped ==
    (module_pc = "returned" /\ repository # <<>> /\ WellFormed(config.format)) =>
        /\ parsed.ok
        /\ IF ModuleText(config.format, config, RenderedStatus) = <<>>
           THEN module_out = <<>>
           ELSE /\ module_out # <<>>
                /\ ConcatText(module_out[1]) = ModuleText(config.format, config, RenderedStatus)

\* C14's case: modified and untracked both counted, modified's format an
\* unclosed group: module returned the segments of untracked alone.
C14_Witness ==
    /\ module_pc = "returned"
    /\ repository # <<>>
    /\ config = GitStatusConfig(<<Var("all_status")>>, [x \in {"modified"} |-> <<Open, Lit("!")>>])
    /\ RenderedStatus.modified > 0
    /\ RenderedStatus.untracked > 0
    /\ parsed.ok
    /\ module_out # <<>>
    /\ ConcatText(module_out[1]) = <<"?">>

====
